---- MODULE Spec2Model ----
(***************************************************************************)
(* QScript handler (qscript_playwright/handler.py): the interpreter that   *)
(* replays one script once per requested device and prints the array of    *)
(* Report Bundles.                                                         *)
(*                                                                         *)
(* A script line is a record: head is its first whitespace-delimited token *)
(* ("" for a blank line), wf says whether the line matches the regular     *)
(* expression of the handler of that head, and the remaining fields are    *)
(* the groups that expression captures.  An Assert expression carries rec, *)
(* the set of matchers whose regular expression matches it (re.match is a  *)
(* prefix match, so one expression can match several).                     *)
(*                                                                         *)
(* The browser (Playwright) is the environment: what it answers during a   *)
(* step is the outcome o the step's action draws.                          *)
(***************************************************************************)
EXTENDS Integers, Sequences, FiniteSets, TLC

VARIABLES devices, script, save_snapshots, pc, di, li, page, tags, results,
          all_results, stdout, hist, raw_text, content, vars_, vi

\* The variables of run_device's substitution loop.
subst_vars == <<raw_text, content, vars_, vi>>

vars == <<devices, script, save_snapshots, pc, di, li, page, tags, results,
          all_results, stdout, hist, raw_text, content, vars_, vi>>

\* ---------------------------------------------------------------- bounds
\* Lines of a script; of a script replayed on several devices with SetVar
\* steps; of a script of Assert steps.
MaxLines == 3
MaxVarLines == 2
MaxAssertLines == 2
MaxVisibleLines == 1
\* Requested devices; in the specifications about single steps.
MaxDevices == 2
MaxStepDevices == 1
\* Elements a selector matches.
MaxMatches == 2
\* Segments of a script text.
MaxSegments == 3

\* -------------------------------------------------------------- constants
None == "<None>"

SUPPORTED_COMMANDS ==
    {"Goto", "Click", "Fill", "FillAuto", "WaitFor", "ScrollTo",
     "Assert", "AssertCookie", "Viewport", "Retry", "SetVar",
     "WaitForPopup", "SwitchToPopup", "ClosePopup",
     "SwitchToIFrame", "ReturnFromIFrame",
     "SaveSession", "RestoreSession"}

DEVICE_VIEWPORTS == {"desktop", "mobile", "bot"}

\* Status codes a navigation answers with, and their http.client reasons.
StatusCodes == {200, 404}

HTTP_REASONS(code) == IF code = 200 THEN "OK" ELSE "Not Found"

\* str(e) of an exception the browser raised.
BrowserError == "<browser error>"

\* Values page.evaluate returns for a SetVar expression.
Values == {"v1", "SYNTAX_ERROR"}

EmptyMap == [k \in {} |-> None]

\* A fresh page: no _last_response attribute (<<>>), no _vars attribute.
NewPage == [last_response |-> <<>>, vars |-> EmptyMap]

\* What a handler hands back: a Step Result, None, or an exception that
\* leaves the handler.
Return(r, p) == [kind |-> "step", res |-> r, page |-> p, consulted |-> <<>>]
ReturnNone(p) == [kind |-> "none", page |-> p, consulted |-> <<>>]
Raise(p) == [kind |-> "raise", page |-> p, consulted |-> <<>>]

SyntaxError(line, msg) == [step |-> line, status |-> "SYNTAX_ERROR", error |-> msg]
Pass(line) == [step |-> line, status |-> "PASS", error |-> None]
Fail(line, msg) == [step |-> line, status |-> "FAIL", error |-> msg]

\* ------------------------------------------------------ assertion handlers
\* exists and visible swapped.
handlers_visible_first ==
    <<"assert_status", "assert_url", "assert_visible", "assert_exists",
      "assert_similar", "assert_children", "assert_cls",
      "assert_attribute_regex", "assert_regex_each", "assert_canonical",
      "assert_language", "assert_no_duplicates">>

handlers ==
    <<"assert_status", "assert_url", "assert_exists", "assert_visible",
      "assert_similar", "assert_children", "assert_cls",
      "assert_attribute_regex", "assert_regex_each", "assert_canonical",
      "assert_language", "assert_no_duplicates">>

\* A matcher's answer: NoMatch (returns None), a payload, an AssertionError,
\* or another exception.
NoMatch == [k |-> "nomatch"]
Payload(p) == [k |-> "payload", payload |-> p]
AssertionError(msg) == [k |-> "assertion", msg |-> msg]
OtherError == [k |-> "error"]

assert_status(p, expr) ==
    IF p.last_response = <<>>
    THEN AssertionError("No prior Goto; cannot check page.status")
    ELSE IF p.last_response[1] # expr.n
         THEN AssertionError("Expected status")
         ELSE Payload(EmptyMap)

assert_url(p, expr, o) ==
    IF ~o.eq THEN AssertionError("Expected URL") ELSE Payload(EmptyMap)

\* o.n elements match the selector.
assert_exists(p, expr, o) ==
    IF o.err THEN OtherError
    ELSE IF o.n = 0 THEN AssertionError("not found")
    ELSE Payload([children_count |-> o.n])

\* o.n elements match the selector, o.v of them are visible.  The
\* AssertionError of the single-match branch is swallowed by the bare
\* except around it and the fallback then counts the visible matches.
\* assert_visible with a fallback that wants every match visible.
assert_visible_all(p, expr, o) ==
    IF o.err THEN OtherError
    ELSE IF o.n = 1 /\ o.v = 1 THEN Payload([matches |-> 1, visible |-> 1])
    ELSE IF o.n = 0 THEN AssertionError("not found")
    ELSE IF o.v < o.n THEN AssertionError("none visible")
    ELSE Payload([matches |-> o.n, visible |-> o.v])

assert_visible(p, expr, o) ==
    IF o.err THEN OtherError
    ELSE IF o.n = 1 /\ o.v = 1 THEN Payload([matches |-> 1, visible |-> 1])
    ELSE IF o.n = 0 THEN AssertionError("not found")
    ELSE IF o.v = 0 THEN AssertionError("none visible")
    ELSE Payload([matches |-> o.n, visible |-> o.v])

\* The matchers whose check is a browser read and a comparison: the read
\* raises, the comparison fails, or the payload is returned.
BrowserCheck(o, msg, payload) ==
    IF o.err THEN OtherError
    ELSE IF ~o.eq THEN AssertionError(msg)
    ELSE Payload(payload)

assert_similar(p, expr, o) ==
    BrowserCheck(o, "Similarity", [similarity |-> "score", text_snippet |-> "txt"])

assert_children(p, expr, o) ==
    BrowserCheck(o, "Children count", [children_count |-> o.n])

assert_cls(p, expr, o) == BrowserCheck(o, "CLS", [cls |-> "cls"])

assert_attribute_regex(p, expr, o) ==
    BrowserCheck(o, "does not match", [attribute |-> "val"])

\* base is truthy: the assignment to raw_regex reads raw_regex, which was
\* never bound, and raises UnboundLocalError.
assert_regex_each(p, expr, o) ==
    LET base == IF "BASE_URL" \in DOMAIN p.vars THEN p.vars["BASE_URL"] ELSE ""
    IN  IF base # ""
        THEN OtherError
        ELSE BrowserCheck(o, "fails or duplicate", [count |-> o.n])

assert_canonical(p, expr, o) ==
    BrowserCheck(o, "canonical != url", [canonical |-> "href"])

assert_language(p, expr, o) ==
    BrowserCheck(o, "lang differs", [element_lang |-> "l", html_lang |-> "l"])

assert_no_duplicates(p, expr, o) ==
    BrowserCheck(o, "Duplicate", [unique_count |-> o.n])

\* h(page, expr): None unless h's regular expression matches expr.
Matcher(h, p, expr, o) ==
    IF h \notin expr.rec THEN NoMatch
    ELSE CASE h = "assert_status" -> assert_status(p, expr)
           [] h = "assert_url" -> assert_url(p, expr, o)
           [] h = "assert_exists" -> assert_exists(p, expr, o)
           [] h = "assert_visible" -> assert_visible(p, expr, o)
           [] h = "assert_similar" -> assert_similar(p, expr, o)
           [] h = "assert_children" -> assert_children(p, expr, o)
           [] h = "assert_cls" -> assert_cls(p, expr, o)
           [] h = "assert_attribute_regex" -> assert_attribute_regex(p, expr, o)
           [] h = "assert_regex_each" -> assert_regex_each(p, expr, o)
           [] h = "assert_canonical" -> assert_canonical(p, expr, o)
           [] h = "assert_language" -> assert_language(p, expr, o)
           [] h = "assert_no_duplicates" -> assert_no_duplicates(p, expr, o)

\* save_snapshot's own failures are file I/O and are not modelled.
WithSnapshot(r, snap) ==
    IF snap THEN [snapshot_html |-> "html", snapshot_image |-> "png"] @@ r ELSE r

\* The loop of handle_assert from the i-th handler on; consulted collects
\* the handlers called.
RECURSIVE AssertLoop(_, _, _, _, _, _, _)
AssertLoop(hs, i, p, line, o, snap, consulted) ==
    IF i > Len(hs)
    THEN [Return(SyntaxError(line, "Unknown assertion"), p)
            EXCEPT !.consulted = consulted]
    ELSE LET res == Matcher(hs[i], p, line.expr, o)
             seen == Append(consulted, hs[i])
         IN  CASE res.k = "assertion" ->
                    [Return(WithSnapshot(Fail(line, res.msg), snap), p)
                       EXCEPT !.consulted = seen]
               [] res.k = "error" -> [Raise(p) EXCEPT !.consulted = seen]
               [] res.k = "payload" ->
                    [Return(res.payload @@ Pass(line), p)
                       EXCEPT !.consulted = seen]
               [] OTHER -> AssertLoop(hs, i + 1, p, line, o, snap, seen)

handle_assert(p, line, o, snap) == AssertLoop(handlers, 1, p, line, o, snap, <<>>)

\* ------------------------------------------------------------ DSL handlers
\* A navigation error forgets the last response.
handle_goto_forgets(p, line, o) ==
    IF ~line.wf THEN Return(SyntaxError(line, "Malformed Goto"), p)
    ELSE IF o.k = "raise"
         THEN Return(Fail(line, BrowserError), [p EXCEPT !.last_response = <<>>])
    ELSE LET q == [p EXCEPT !.last_response = <<o.status>>]
         IN  IF o.after = "raise" THEN Raise(q)
             ELSE Return(
                    [status_code |-> o.status,
                     status_text |-> HTTP_REASONS(o.status)]
                    @@ [step |-> line,
                        status |-> IF o.status < 400 THEN "PASS" ELSE "FAIL",
                        error |-> IF o.status < 400 THEN None ELSE "HTTP"],
                    q)

handle_goto(p, line, o) ==
    IF ~line.wf THEN Return(SyntaxError(line, "Malformed Goto"), p)
    ELSE IF o.k = "raise" THEN Return(Fail(line, BrowserError), p)
    ELSE LET q == [p EXCEPT !.last_response = <<o.status>>]
         IN  IF o.after = "raise" THEN Raise(q)
             ELSE Return(
                    [status_code |-> o.status,
                     status_text |-> HTTP_REASONS(o.status)]
                    @@ [step |-> line,
                        status |-> IF o.status < 400 THEN "PASS" ELSE "FAIL",
                        error |-> IF o.status < 400 THEN None ELSE "HTTP"],
                    q)

\* The handlers that match the line, call the browser inside try, and turn
\* any exception into FAIL.
TryBrowser(p, line, o, msg) ==
    IF ~line.wf THEN Return(SyntaxError(line, msg), p)
    ELSE IF o.k = "raise" THEN Return(Fail(line, BrowserError), p)
    ELSE Return(Pass(line), p)

handle_click(p, line, o) == TryBrowser(p, line, o, "Malformed Click")
handle_fill(p, line, o) == TryBrowser(p, line, o, "Malformed Fill")
handle_fillauto(p, line, o) == TryBrowser(p, line, o, "Malformed FillAuto")
handle_waitfor(p, line, o) == TryBrowser(p, line, o, "Malformed WaitFor")
handle_scrollto(p, line, o) == TryBrowser(p, line, o, "Malformed ScrollTo")
handle_assertcookie(p, line, o) == TryBrowser(p, line, o, "Malformed AssertCookie")
handle_viewport(p, line, o) == TryBrowser(p, line, o, "Malformed Viewport")

Stubs ==
    {"WaitForPopup", "SwitchToPopup", "ClosePopup", "SwitchToIFrame",
     "ReturnFromIFrame", "SaveSession", "RestoreSession", "Retry"}

handle_stub(p, line) == Return(Fail(line, "Not implemented"), p)

\* A name already in the store keeps its first value.
handle_setvar_keeps_first(p, line, o) ==
    IF ~line.wf THEN Return(SyntaxError(line, "Malformed SetVar"), p)
    ELSE IF o.k = "raise" THEN Return([step |-> line, status |-> "FAIL", error |-> BrowserError], p)
    ELSE Return((line.name :> o.val) @@ [step |-> line, status |-> "PASS"],
                [p EXCEPT !.vars = @ @@ (line.name :> o.val)])

\* The PASS result is the literal {"step", "status", varname: val}: a key
\* written twice keeps the last value, and there is no "error" key.
handle_setvar(p, line, o) ==
    IF ~line.wf THEN Return(SyntaxError(line, "Malformed SetVar"), p)
    ELSE IF o.k = "raise" THEN Return([step |-> line, status |-> "FAIL", error |-> BrowserError], p)
    ELSE Return((line.name :> o.val) @@ [step |-> line, status |-> "PASS"],
                [p EXCEPT !.vars = (line.name :> o.val) @@ @])

Skipped(line) == line.head \in {"", "#", "Test:", "Tags:", "End"}

execute_step(p, line, o, snap) ==
    IF Skipped(line) THEN ReturnNone(p)
    ELSE CASE line.head = "Goto" -> handle_goto(p, line, o)
           [] line.head = "Click" -> handle_click(p, line, o)
           [] line.head = "Fill" -> handle_fill(p, line, o)
           [] line.head = "FillAuto" -> handle_fillauto(p, line, o)
           [] line.head = "WaitFor" -> handle_waitfor(p, line, o)
           [] line.head = "ScrollTo" -> handle_scrollto(p, line, o)
           [] line.head = "AssertCookie" -> handle_assertcookie(p, line, o)
           [] line.head = "Viewport" -> handle_viewport(p, line, o)
           [] line.head \in Stubs -> handle_stub(p, line)
           [] line.head = "SetVar" -> handle_setvar(p, line, o)
           [] line.head = "Assert" -> handle_assert(p, line, o, snap)
           [] line.head \notin SUPPORTED_COMMANDS ->
                Return(SyntaxError(line, "Unknown or malformed"), p)
           [] OTHER -> Return(SyntaxError(line, "Not implemented"), p)
\* ------------------------------------------------------------ script lines
Blank == [head |-> ""]
Comment == [head |-> "#"]
TestLine == [head |-> "Test:"]
EndLine == [head |-> "End"]

\* The text after "Tags:" as tokens: words and the separators between them.
WordTokens == {"smoke", "regression", "extended"}
TagsSmoke == [head |-> "Tags:", text |-> <<" ", "smoke", " ", "regression">>]
TagsExtended == [head |-> "Tags:", text |-> <<" ", "extended">>]

Goto == [head |-> "Goto", wf |-> TRUE]
GotoBad == [head |-> "Goto", wf |-> FALSE]
Click == [head |-> "Click", wf |-> TRUE]
Retry == [head |-> "Retry", wf |-> TRUE]
Unknown == [head |-> "Frobnicate", wf |-> FALSE]
SetVar(name) == [head |-> "SetVar", wf |-> TRUE, name |-> name]
SetVarBad == [head |-> "SetVar", wf |-> FALSE, name |-> "X"]

Expr(rec, n) == [head |-> "Assert", wf |-> rec # {}, expr |-> [rec |-> rec, n |-> n]]
AssertStatus(n) == Expr({"assert_status"}, n)
AssertVisible == Expr({"assert_visible"}, 0)
\* element "a" visible" exists: both regular expressions match it.
AssertExistsVisible == Expr({"assert_exists", "assert_visible"}, 0)
AssertChildren == Expr({"assert_children"}, 0)
AssertRegexEach == Expr({"assert_regex_each"}, 0)
AssertCanonical == Expr({"assert_canonical"}, 0)
AssertUnknown == Expr({}, 0)

\* re.findall(r'\w+', text)
FindallWords(text) == SelectSeq(text, LAMBDA t : t \in WordTokens)

\* ------------------------------------------------------------ the browser
\* What the browser answers while the line runs.
Quiet == [k |-> "quiet", err |-> FALSE, n |-> 0, v |-> 0, eq |-> TRUE]

DomAnswers(rec) ==
    IF rec \cap {"assert_exists", "assert_visible"} # {}
    THEN {[k |-> "dom", err |-> FALSE, n |-> n, v |-> v, eq |-> TRUE] :
             n \in 0..MaxMatches, v \in 0..MaxMatches}
         \cup {[k |-> "dom", err |-> TRUE, n |-> 0, v |-> 0, eq |-> TRUE]}
    ELSE IF rec \subseteq {"assert_status"} THEN {Quiet}
    ELSE {[k |-> "dom", err |-> FALSE, n |-> 1, v |-> 1, eq |-> e] : e \in BOOLEAN}
         \cup (IF rec = {"assert_url"} THEN {}
               ELSE {[k |-> "dom", err |-> TRUE, n |-> 0, v |-> 0, eq |-> TRUE]})

BrowserOutcomes(line) ==
    CASE Skipped(line) -> {Quiet}
      [] ~line.wf \/ line.head \in Stubs -> {Quiet}
      [] line.head = "Goto" ->
           {[k |-> "raise"]}
           \cup {[k |-> "resp", status |-> s, after |-> a] :
                    s \in StatusCodes, a \in {"ok", "raise"}}
      [] line.head = "SetVar" ->
           {[k |-> "raise"]} \cup {[k |-> "val", val |-> x] : x \in Values}
      [] line.head = "Assert" -> {a \in DomAnswers(line.expr.rec) : a.v <= a.n}
      [] OTHER -> {[k |-> "ok"], [k |-> "raise"]}

\* ------------------------------------------------------------------- Init
Scripts(Lines, n) == UNION {[1..m -> Lines] : m \in 0..n}
DeviceLists(Names, n) == UNION {[1..m -> Names] : m \in 1..n}

InitWith(Lines, maxLines, Names, maxDevices, Snaps) ==
    /\ script \in Scripts(Lines, maxLines)
    /\ devices \in DeviceLists(Names, maxDevices)
    /\ save_snapshots \in Snaps
    /\ pc = "main"
    /\ di = 1
    /\ li = 1
    /\ page = NewPage
    /\ tags = <<>>
    /\ results = <<>>
    /\ all_results = <<>>
    /\ stdout = <<>>
    /\ hist = <<>>
    /\ raw_text = <<>>
    /\ content = <<>>
    /\ vars_ = <<>>
    /\ vi = 1

\* ---------------------------------------------------------------- actions
\* run_device up to the loop: the session is opened (the launch or the
\* DEVICE_VIEWPORTS lookup may raise) and the script is read.
StartDevice ==
    /\ pc = "main"
    /\ di <= Len(devices)
    /\ \E launched \in BOOLEAN :
         IF launched /\ devices[di] \in DEVICE_VIEWPORTS
         THEN /\ pc' = "run_device"
              /\ page' = NewPage
              /\ tags' = <<>>
              /\ results' = <<>>
              /\ li' = 1
              /\ hist' = <<>>
         ELSE /\ pc' = "crashed"
              /\ UNCHANGED <<page, tags, results, li, hist>>
    /\ UNCHANGED subst_vars
    /\ UNCHANGED <<devices, script, save_snapshots, di, all_results, stdout>>

\* The words are added to the active tag set instead of replacing it.
TagsLine_extends ==
    /\ pc = "run_device"
    /\ li <= Len(script)
    /\ script[li].head = "Tags:"
    /\ tags' = tags \o FindallWords(script[li].text)
    /\ li' = li + 1
    /\ UNCHANGED subst_vars
    /\ UNCHANGED <<devices, script, save_snapshots, pc, di, page, results,
                   all_results, stdout, hist>>

\* A "Tags:" line.
TagsLine ==
    /\ pc = "run_device"
    /\ li <= Len(script)
    /\ script[li].head = "Tags:"
    /\ tags' = FindallWords(script[li].text)
    /\ li' = li + 1
    /\ UNCHANGED subst_vars
    /\ UNCHANGED <<devices, script, save_snapshots, pc, di, page, results,
                   all_results, stdout, hist>>

\* A blank line, "Test:", "End" or a comment.
SkipLine ==
    /\ pc = "run_device"
    /\ li <= Len(script)
    /\ script[li].head \in {"", "Test:", "End", "#"}
    /\ li' = li + 1
    /\ UNCHANGED subst_vars
    /\ UNCHANGED <<devices, script, save_snapshots, pc, di, page, tags,
                   results, all_results, stdout, hist>>

\* The step's tags are a copy of the active tag set.
Stamp(step, t) == ("tags" :> t) @@ step

\* A real step.  hist records, per executed line of the session, the page
\* state the step started from, what the browser answered and which
\* matchers handle_assert called.
ExecLine ==
    /\ pc = "run_device"
    /\ li <= Len(script)
    /\ script[li].head \notin {"Tags:", "", "Test:", "End", "#"}
    /\ \E o \in BrowserOutcomes(script[li]) :
         LET x == execute_step(page, script[li], o, save_snapshots)
             ev == [li |-> li, o |-> o, page |-> page,
                    consulted |-> x.consulted, yielded |-> x.kind = "step"]
         IN  /\ hist' = Append(hist, ev)
             /\ page' = x.page
             /\ CASE x.kind = "raise" ->
                       /\ pc' = "crashed"
                       /\ UNCHANGED <<results, li>>
                  [] x.kind = "none" ->
                       /\ li' = li + 1
                       /\ UNCHANGED <<results, pc>>
                  [] OTHER ->
                       /\ results' = Append(results, Stamp(x.res, tags))
                       /\ li' = li + 1
                       /\ UNCHANGED pc
    /\ UNCHANGED subst_vars
    /\ UNCHANGED <<devices, script, save_snapshots, di, tags, all_results, stdout>>

\* The loop is over: the browser is closed and main appends the bundle.
FinishDevice ==
    /\ pc = "run_device"
    /\ li > Len(script)
    /\ all_results' = Append(all_results, [device |-> devices[di], results |-> results])
    /\ di' = di + 1
    /\ pc' = "main"
    /\ UNCHANGED subst_vars
    /\ UNCHANGED <<devices, script, save_snapshots, li, page, tags, results,
                   stdout, hist>>

\* print(json.dumps(all_results))
Emit ==
    /\ pc = "main"
    /\ di > Len(devices)
    /\ stdout' = <<all_results>>
    /\ pc' = "done"
    /\ UNCHANGED subst_vars
    /\ UNCHANGED <<devices, script, save_snapshots, di, li, page, tags,
                   results, all_results, hist>>

Next == StartDevice \/ TagsLine \/ SkipLine \/ ExecLine \/ FinishDevice \/ Emit

\* ---------------------------------------------------------- specifications
\* Requested device names: a known profile and an unknown one.
DeviceNames == {"desktop", "tablet"}

\* Every command family, one device.
StepLines ==
    {Comment, TagsSmoke, Goto, GotoBad, Click, Retry, Unknown,
     SetVar("X"), SetVar("error"), SetVar("status"), AssertCanonical, AssertUnknown}

Init == InitWith(StepLines, MaxLines, DeviceNames, MaxStepDevices, BOOLEAN)

Spec == Init /\ [][Next]_vars

\* Tags lines among steps, replayed on several devices.
TagLines == {TagsSmoke, TagsExtended, Blank, Click, SetVar("tags")}

InitTags == InitWith(TagLines, MaxLines, DeviceNames, MaxDevices, {FALSE})

SpecTags == InitTags /\ [][Next]_vars

\* SetVar among other commands, replayed on several devices.
VarLines == {SetVar("X"), SetVar("BASE_URL"), SetVarBad, Click, TagsSmoke, EndLine}

InitVars == InitWith(VarLines, MaxVarLines, DeviceNames, MaxDevices, {FALSE})

SpecVars == InitVars /\ [][Next]_vars

\* Assert expressions of several matchers, one device.
AssertLines ==
    {AssertExistsVisible, AssertRegexEach, AssertUnknown, AssertStatus(200),
     SetVar("BASE_URL"), TagsSmoke, TestLine}

InitAssert == InitWith(AssertLines, MaxAssertLines, DeviceNames, MaxStepDevices, BOOLEAN)

SpecAssert == InitAssert /\ [][Next]_vars

\* Navigations and status assertions, one device.
StatusLines == {Goto, GotoBad, AssertStatus(200), AssertStatus(404), TagsSmoke, Comment}

InitStatus == InitWith(StatusLines, MaxLines, DeviceNames, MaxStepDevices, BOOLEAN)

SpecStatus == InitStatus /\ [][Next]_vars

\* Visibility assertions, one line.
VisibleLines == {AssertVisible, Click, TagsSmoke, Comment}

InitVisible ==
    InitWith(VisibleLines, MaxVisibleLines, DeviceNames, MaxStepDevices, BOOLEAN)

SpecVisible == InitVisible /\ [][Next]_vars

\* ----------------------------------------------------------- substitution
\* Texts are sequences of characters.
VarNames == {"A", "B"}

\* f'<{k}>'
Placeholder(k) == <<"<", k, ">">>

\* The pieces script texts are made of: placeholders of the declared names
\* and of a name nobody declares, and plain characters.
Segments ==
    {Placeholder("A"), Placeholder("B"), Placeholder("U"),
     <<"<">>, <<">">>, <<"x">>}

RECURSIVE Flatten(_)
Flatten(ss) == IF ss = <<>> THEN <<>> ELSE Head(ss) \o Flatten(Tail(ss))

Texts == {Flatten(ss) : ss \in UNION {[1..m -> Segments] : m \in 0..MaxSegments}}

\* The values of -v NAME=VALUE.
DeclValues == {<<>>, <<"x">>, Placeholder("A"), Placeholder("B")}

\* dict(v.split('=', 1) for v in args.vars): the declared names in the
\* order of their declaration, each with its value.
Declarations ==
    {d \in UNION {[1..m -> [k : VarNames, v : DeclValues]] : m \in 0..Cardinality(VarNames)} :
        \A a, b \in DOMAIN d : a # b => d[a].k # d[b].k}

\* str.replace(old, new): every occurrence of old, found from the left and
\* not overlapping, becomes new; what was put in is not looked at again.
RECURSIVE Replace(_, _, _)
Replace(t, old, new) ==
    IF Len(t) < Len(old) THEN t
    ELSE IF SubSeq(t, 1, Len(old)) = old
         THEN new \o Replace(SubSeq(t, Len(old) + 1, Len(t)), old, new)
         ELSE <<Head(t)>> \o Replace(Tail(t), old, new)

InitSubst ==
    /\ raw_text \in Texts
    /\ content = raw_text
    /\ vars_ \in Declarations
    /\ vi = 1
    /\ pc = "substitute"
    /\ script = <<>>
    /\ devices = <<"desktop">>
    /\ save_snapshots = FALSE
    /\ di = 1
    /\ li = 1
    /\ page = NewPage
    /\ tags = <<>>
    /\ results = <<>>
    /\ all_results = <<>>
    /\ stdout = <<>>
    /\ hist = <<>>

\* One turn of the loop over vars_.items().
SubstituteVar ==
    /\ pc = "substitute"
    /\ vi <= Len(vars_)
    /\ content' = Replace(content, Placeholder(vars_[vi].k), vars_[vi].v)
    /\ vi' = vi + 1
    /\ UNCHANGED <<raw_text, vars_, pc>>
    /\ UNCHANGED <<devices, script, save_snapshots, di, li, page, tags,
                   results, all_results, stdout, hist>>

\* The loop is over: content is what the lines are read from.
SubstituteDone ==
    /\ pc = "substitute"
    /\ vi > Len(vars_)
    /\ pc' = "substituted"
    /\ UNCHANGED subst_vars
    /\ UNCHANGED <<devices, script, save_snapshots, di, li, page, tags,
                   results, all_results, stdout, hist>>

NextSubst == SubstituteVar \/ SubstituteDone

SpecSubst == InitSubst /\ [][NextSubst]_vars

\* ------------------------------------------------------------------ claims
Executable(line) == ~Skipped(line)

\* The indices of the executable lines of the script, in script order.
ExecutableIdx == SelectSeq([i \in 1..Len(script) |-> i], LAMBDA i : Executable(script[i]))

\* Those the loop of the current session has reached: passed, or running
\* when an exception left the step.
ReachedIdx ==
    SelectSeq(ExecutableIdx,
              LAMBDA i : i < li \/ \E k \in 1..Len(hist) : hist[k].li = i)

ErrorMatchesStatus(r) ==
    /\ "error" \in DOMAIN r
    /\ r["status"] = "PASS" => r["error"] = None
    /\ r["status"] \in {"FAIL", "SYNTAX_ERROR"} => r["error"] # None

\* C1: every Step Result in any device's results has an error field, null
\* when its status is PASS and non-null when it is FAIL or SYNTAX_ERROR.
C1_ErrorNullIffPass ==
    /\ \A k \in 1..Len(results) : ErrorMatchesStatus(results[k])
    /\ \A d \in 1..Len(all_results) :
         \A k \in 1..Len(all_results[d].results) :
            ErrorMatchesStatus(all_results[d].results[k])

\* C2: every executable line the loop reached has yielded exactly one Step
\* Result, in script order, and no other line has yielded one; a bundle
\* holds one Step Result per executable line of the script.
C2_OneResultPerExecutableLine ==
    /\ pc \in {"run_device", "crashed"} =>
         /\ Len(results) = Len(ReachedIdx)
         /\ \A k \in 1..Len(results) : results[k]["step"] = script[ReachedIdx[k]]
    /\ \A d \in 1..Len(all_results) :
         /\ Len(all_results[d].results) = Len(ExecutableIdx)
         /\ \A k \in 1..Len(ExecutableIdx) :
              all_results[d].results[k]["step"] = script[ExecutableIdx[k]]

\* The browser raised an error while the step ran.
BrowserRaised(o) ==
    \/ o.k = "raise"
    \/ o.k = "resp" /\ o.after = "raise"
    \/ o.k = "dom" /\ o.err

\* C3: a step during which the browser raised an error yields a Step Result
\* of status FAIL; the error never leaves execute_step.
C3_BrowserErrorBecomesFail ==
    \A k \in 1..Len(hist) :
       BrowserRaised(hist[k].o) =>
          /\ hist[k].yielded
          /\ pc # "crashed"
          /\ k <= Len(results)
          /\ results[k]["status"] = "FAIL"

\* A recognized keyword with a body that matches its grammar.
WellFormed(line) == line.head \in SUPPORTED_COMMANDS /\ line.wf

\* C7: the Step Result of a line with a recognized keyword and a well-formed
\* body never has status SYNTAX_ERROR.
C7_WellFormedNeverSyntaxError ==
    /\ \A k \in 1..Len(results) :
         WellFormed(script[ReachedIdx[k]]) => results[k]["status"] # "SYNTAX_ERROR"
    /\ \A d \in 1..Len(all_results) :
         \A k \in 1..Len(all_results[d].results) :
            WellFormed(script[ExecutableIdx[k]]) =>
               all_results[d].results[k]["status"] # "SYNTAX_ERROR"
\* The words of the last "Tags:" line before line i, <<>> when there is none.
ActiveTagsAt(i) ==
    LET T == {j \in 1..(i - 1) : script[j].head = "Tags:"}
    IN  IF T = {} THEN <<>>
        ELSE FindallWords(script[CHOOSE j \in T : \A t \in T : t <= j].text)

\* C4: the tags of every Step Result are the word list of the most recent
\* "Tags:" line before its step (empty when there is none), in the running
\* session and in every bundle, whatever "Tags:" lines came later.
C4_TagsOfMostRecentTagsLine ==
    /\ \A k \in 1..Len(results) : results[k]["tags"] = ActiveTagsAt(ReachedIdx[k])
    /\ \A d \in 1..Len(all_results) :
         \A k \in 1..Len(all_results[d].results) :
            all_results[d].results[k]["tags"] = ActiveTagsAt(ExecutableIdx[k])

\* A second device's session has passed a later "Tags:" line and the result
\* recorded before it, like the first device's, keeps the earlier tags.
C4_Witness ==
    /\ pc = "run_device"
    /\ di = 2
    /\ Len(results) >= 1
    /\ results[1]["tags"] = <<"smoke", "regression">>
    /\ tags = <<"extended">>
    /\ all_results[1].results[1]["tags"] = <<"smoke", "regression">>

\* An exception left a step of the current session.
StepRaised == pc = "crashed" /\ hist # <<>> /\ ~hist[Len(hist)].yielded

\* C5: when every requested device is known and every session could be
\* created, the run ends with the output holding one Report Bundle per
\* requested device, in request order, each with the requested name.
C5_OneBundlePerDevice ==
    (/\ pc = "done" \/ StepRaised
     /\ \A i \in 1..Len(devices) : devices[i] \in DEVICE_VIEWPORTS)
    => /\ stdout # <<>>
       /\ Len(stdout[1]) = Len(devices)
       /\ \A i \in 1..Len(devices) : stdout[1][i].device = devices[i]

\* C6: after a fatal error while processing a device the array has been
\* written to standard output and holds the bundles of the devices before.
C6_OutputWrittenOnFatal ==
    pc = "crashed" => stdout = <<all_results>>

\* The order the claim gives the matchers.
ClaimedOrder ==
    <<"assert_status", "assert_url", "assert_exists", "assert_visible",
      "assert_similar", "assert_children", "assert_cls",
      "assert_attribute_regex", "assert_regex_each", "assert_canonical",
      "assert_language", "assert_no_duplicates">>

\* The place in that order of the first matcher that recognizes expr, or 0.
FirstRecognizer(expr) ==
    LET I == {i \in 1..Len(ClaimedOrder) : ClaimedOrder[i] \in expr.rec}
    IN  IF I = {} THEN 0 ELSE CHOOSE i \in I : \A j \in I : i <= j

AssertVerdict(k) ==
    LET e == hist[k]
        line == script[e.li]
        f == FirstRecognizer(line.expr)
        m == Matcher(ClaimedOrder[f], e.page, line.expr, e.o)
    IN  IF f = 0
        THEN /\ e.consulted = ClaimedOrder
             /\ e.yielded
             /\ results[k]["status"] = "SYNTAX_ERROR"
        ELSE /\ e.consulted = SubSeq(ClaimedOrder, 1, f)
             /\ e.yielded => results[k]["status"] # "SYNTAX_ERROR"
             /\ m.k = "payload" =>
                  /\ e.yielded
                  /\ results[k]["status"] = "PASS"
                  /\ \A key \in DOMAIN m.payload : results[k][key] = m.payload[key]
             /\ m.k = "assertion" =>
                  /\ e.yielded
                  /\ results[k]["status"] = "FAIL"
                  /\ results[k]["error"] = m.msg

\* C8: handle_assert calls the matchers in the claimed order up to the first
\* that recognizes the expression and no further; the result is PASS with
\* that matcher's payload when its check succeeds, FAIL with its message
\* when its check fails, and SYNTAX_ERROR exactly when none recognizes it.
C8_FirstMatcherOwnsVerdict ==
    \A k \in 1..Len(hist) : script[hist[k].li].head = "Assert" => AssertVerdict(k)

\* An expression both exists and visible recognize, with matches none of
\* which is visible: exists comes first and the result is PASS.
C8_Witness ==
    \E k \in 1..Len(hist) :
       /\ script[hist[k].li] = AssertExistsVisible
       /\ hist[k].o.n = 2
       /\ hist[k].o.v = 0
       /\ ~hist[k].o.err
       /\ results[k]["status"] = "PASS"
       /\ hist[k].consulted = <<"assert_status", "assert_url", "assert_exists">>

\* The store after the steps of h: each SetVar whose evaluation succeeded
\* sets its name, the last one winning.
RECURSIVE StoreAfter(_)
StoreAfter(h) ==
    IF h = <<>> THEN EmptyMap
    ELSE LET e == h[Len(h)]
             line == script[e.li]
             before == StoreAfter(SubSeq(h, 1, Len(h) - 1))
         IN  IF line.head = "SetVar" /\ line.wf /\ e.o.k = "val"
             THEN [n \in DOMAIN before \cup {line.name} |->
                      IF n = line.name THEN e.o.val ELSE before[n]]
             ELSE before

\* C9: the Variable Store is the map of the last successful SetVar of each
\* name among the steps executed so far in the same session, and every step
\* started from the store its predecessors of that session left.
C9_StoreIsLastSuccessfulSetVar ==
    /\ page.vars = StoreAfter(hist)
    /\ \A k \in 1..Len(hist) : hist[k].page.vars = StoreAfter(SubSeq(hist, 1, k - 1))

\* In the second device's session, whose store started empty although the
\* first device's session had set X: X is set and then set again.
C9_Witness ==
    /\ di = 2
    /\ Len(all_results) = 1
    /\ Len(hist) = 2
    /\ script[1] = SetVar("X")
    /\ script[2] = SetVar("X")
    /\ "X" \in DOMAIN all_results[1].results[2]
    /\ hist[1].page.vars = EmptyMap
    /\ hist[1].o.k = "val"
    /\ hist[2].o.k = "val"
    /\ hist[2].o.val # hist[1].o.val
    /\ page.vars["X"] = hist[2].o.val

IsStatusAssert(line) == line.head = "Assert" /\ "assert_status" \in line.expr.rec

\* The Goto steps before the k-th step of the session.
GotosBefore(k) ==
    {j \in 1..(k - 1) : script[hist[j].li].head = "Goto" /\ script[hist[j].li].wf}

Latest(S) == CHOOSE j \in S : \A t \in S : t <= j

\* C10 as claimed: FAIL when no Goto step ran before, else PASS exactly when
\* N is the status code of the most recent Goto step, passed or failed.
C10_StatusOfMostRecentGoto ==
    \A k \in 1..Len(hist) :
       IsStatusAssert(script[hist[k].li]) =>
          LET G == GotosBefore(k)
          IN  /\ hist[k].yielded
              /\ results[k]["status"] =
                   IF /\ G # {}
                      /\ hist[Latest(G)].o.k = "resp"
                      /\ hist[Latest(G)].o.status = script[hist[k].li].expr.n
                   THEN "PASS" ELSE "FAIL"

\* C10 amended: the last navigation is the most recent Goto step whose
\* page.goto returned a response, whatever its status code.
C10_StatusOfLastResponse ==
    \A k \in 1..Len(hist) :
       IsStatusAssert(script[hist[k].li]) =>
          LET G == {j \in GotosBefore(k) : hist[j].o.k = "resp"}
          IN  /\ hist[k].yielded
              /\ results[k]["status"] =
                   IF G # {} /\ hist[Latest(G)].o.status = script[hist[k].li].expr.n
                   THEN "PASS" ELSE "FAIL"

\* Goto answered 200, a second Goto failed with a navigation error, and
\* "page.status is 200" passed.
C10_Witness ==
    /\ Len(hist) = 3
    /\ script[hist[1].li] = Goto
    /\ hist[1].o.k = "resp"
    /\ hist[1].o.status = 200
    /\ script[hist[2].li] = Goto
    /\ hist[2].o.k = "raise"
    /\ results[2]["status"] = "FAIL"
    /\ script[hist[3].li] = AssertStatus(200)
    /\ results[3]["status"] = "PASS"

\* C11: with a BASE_URL in the session's store, "each attribute A in
\* elements S matches /P/" ends with a result, PASS exactly when every
\* attribute matches the expanded pattern and the values are distinct,
\* FAIL otherwise.
C11_RegexEachWithBaseUrl ==
    \A k \in 1..Len(hist) :
       (/\ script[hist[k].li] = AssertRegexEach
        /\ "BASE_URL" \in DOMAIN hist[k].page.vars
        /\ ~hist[k].o.err) =>
          /\ hist[k].yielded
          /\ results[k]["status"] = IF hist[k].o.eq THEN "PASS" ELSE "FAIL"

IsVisibleAssert(line) ==
    line.head = "Assert" /\ FirstRecognizer(line.expr) = 4

\* C12: with n matches of which v are visible (the browser answering every
\* query), the visibility assertion is FAIL when n = 0, FAIL when n = 1 and
\* the match is hidden, FAIL when n > 1 and v = 0, and otherwise PASS with
\* matches = n and visible = v, hidden matches notwithstanding.
C12_VisibleVerdict ==
    \A k \in 1..Len(hist) :
       (IsVisibleAssert(script[hist[k].li]) /\ ~hist[k].o.err) =>
          LET n == hist[k].o.n
              v == hist[k].o.v
          IN  /\ hist[k].yielded
              /\ (n = 0 \/ v = 0) => results[k]["status"] = "FAIL"
              /\ (n >= 1 /\ v >= 1) =>
                    /\ results[k]["status"] = "PASS"
                    /\ results[k]["matches"] = n
                    /\ results[k]["visible"] = v

\* Two matches, one of them hidden: PASS with matches 2 and visible 1.
C12_Witness ==
    \E k \in 1..Len(hist) :
       /\ script[hist[k].li] = AssertVisible
       /\ hist[k].o.n = 2
       /\ hist[k].o.v = 1
       /\ ~hist[k].o.err
       /\ results[k]["status"] = "PASS"
       /\ results[k]["matches"] = 2
       /\ results[k]["visible"] = 1

\* The declaration of the placeholder t begins with, or 0.
DeclaredAt(t, decl) ==
    LET D == {i \in DOMAIN decl :
                 /\ Len(t) >= Len(Placeholder(decl[i].k))
                 /\ SubSeq(t, 1, Len(Placeholder(decl[i].k))) = Placeholder(decl[i].k)}
    IN  IF D = {} THEN 0 ELSE CHOOSE i \in D : TRUE

\* The text the claim describes: each placeholder of a declared name gives
\* way to the declared value as it stands, everything else stays.
RECURSIVE ClaimedText(_, _)
ClaimedText(t, decl) ==
    IF t = <<>> THEN <<>>
    ELSE LET i == DeclaredAt(t, decl)
         IN  IF i = 0 THEN <<Head(t)>> \o ClaimedText(Tail(t), decl)
             ELSE decl[i].v \o
                  ClaimedText(SubSeq(t, Len(Placeholder(decl[i].k)) + 1, Len(t)), decl)

\* C13: after the substitution loop the content is the script text with
\* every placeholder of a declared name replaced by exactly that name's
\* declared value and everything else, placeholders of undeclared names
\* included, left as it was, whatever the declarations and their order.
C13_SubstitutionIsLiteral ==
    pc = "substituted" => content = ClaimedText(raw_text, vars_)
====
